---- MODULE Spec2Model ----
(***************************************************************************)
(* bluebook: a phonebook of Person objects (lib/person.py,                 *)
(* lib/phonebook.py) and the command handlers of api/bluebook.py.          *)
(*                                                                         *)
(* Python strings are tuples of one-character strings; Python's None is    *)
(* the one-element tuple <<"None">>, which is no string of characters.     *)
(* Person objects live in a heap and are named by their index in it, so    *)
(* that two objects with the same fields are still two objects: Person     *)
(* defines no __eq__, and Python compares such objects by identity.        *)
(***************************************************************************)
EXTENDS Integers, Sequences, FiniteSets, TLC

VARIABLES
    heap,       \* every Person object constructed so far: id -> its __dict__
    contacts,   \* Phonebook.contacts: a list of references (ids) into heap
    file,       \* the file save_to_file writes and load_from_file reads
    last,       \* the last call: operation, arguments, state before, outcome
    snap,       \* the contacts' fields as they were at the last save_to_file
    run         \* the invocation of main() under way: its position, its
                \* arguments, the steps it has taken (each with the length
                \* of the list after it), the steps of the invocation
                \* before it, the file it exported

vars == <<heap, contacts, file, last, snap, run>>

\* Bounds of the model.
MaxObjs == 2    \* Person objects ever constructed
MaxLen == 3     \* length of Phonebook.contacts

----------------------------------------------------------------------------
\* Strings

None == <<"None">>

\* The characters in code point order (space, digits, upper case, lower case).
Alphabet ==
    << " ", "0", "1", "2", "3", "4", "5", "6", "7", "8", "9",
       "A", "B", "C", "D", "E", "F", "G", "H", "I", "J", "K", "L", "M",
       "N", "O", "P", "Q", "R", "S", "T", "U", "V", "W", "X", "Y", "Z",
       "a", "b", "c", "d", "e", "f", "g", "h", "i", "j", "k", "l", "m",
       "n", "o", "p", "q", "r", "s", "t", "u", "v", "w", "x", "y", "z" >>

Chars == {Alphabet[i] : i \in 1..Len(Alphabet)}

\* ord(c)
Ord == [c \in Chars |-> CHOOSE i \in 1..Len(Alphabet) : Alphabet[i] = c]

\* c.lower() of one character
LowerChar ==
    [c \in Chars |->
        IF Ord[c] \in Ord["A"]..Ord["Z"]
        THEN Alphabet[Ord[c] - Ord["A"] + Ord["a"]]
        ELSE c]

IsDigit(c) == Ord[c] \in Ord["0"]..Ord["9"]

\* str.lower()
lower(s) == [i \in 1..Len(s) |-> LowerChar[s[i]]]

\* `q in s` on two strings
contains(q, s) ==
    \E i \in 0..(Len(s) - Len(q)) : SubSeq(s, i + 1, i + Len(q)) = q

\* bool(v) of a string or None
truthy(v) == v # None /\ v # <<>>

\* `v or ""`
or_empty(v) == IF truthy(v) THEN v ELSE <<>>

\* str(v), as '{}'.format(v) renders a string or None
format(v) == IF v = None THEN <<"N", "o", "n", "e">> ELSE v

\* a < b on two strings (code point order)
RECURSIVE str_less(_, _)
str_less(a, b) ==
    IF b = <<>> THEN FALSE
    ELSE IF a = <<>> THEN TRUE
    ELSE IF a[1] # b[1] THEN Ord[a[1]] < Ord[b[1]]
    ELSE str_less(Tail(a), Tail(b))

----------------------------------------------------------------------------
\* lib/person.py

Fields == {"first_name", "last_name", "phone", "address", "full_name"}

\* Person.__init__: full_name is formatted once, here.
Person(first_name, last_name, phone, address) ==
    [first_name |-> first_name,
     last_name  |-> last_name,
     phone      |-> phone,
     address    |-> address,
     full_name  |-> format(first_name) \o <<" ">> \o format(last_name)]

\* dict.get(key), None when the key is absent
dict_get(data, key) == IF key \in DOMAIN data THEN data[key] ELSE None

from_dict_lenient(data) ==
    [err |-> "none",
     person |-> Person(dict_get(data, "first_name"), dict_get(data, "last_name"),
                       dict_get(data, "phone"), dict_get(data, "address"))]

\* Person.from_dict: data["first_name"] and data["last_name"] raise KeyError
\* when absent; phone and address are read with data.get.
from_dict(data) ==
    IF "first_name" \notin DOMAIN data \/ "last_name" \notin DOMAIN data
    THEN [err |-> "KeyError", person |-> Person(None, None, None, None)]
    ELSE [err |-> "none",
          person |-> Person(data["first_name"], data["last_name"],
                            dict_get(data, "phone"), dict_get(data, "address"))]

----------------------------------------------------------------------------
\* lib/phonebook.py: the list operations

\* a == b on two Person objects: Person defines no __eq__, so object.__eq__
\* decides, and it is identity.
py_eq_fields(h, a, b) == h[a] = h[b]

py_eq(h, a, b) == a = b

\* list.index: the first position from i on whose element == o, 0 when none
RECURSIVE list_index(_, _, _, _)
list_index(cs, h, o, i) ==
    IF i > Len(cs) THEN 0
    ELSE IF py_eq(h, cs[i], o) THEN i
    ELSE list_index(cs, h, o, i + 1)

\* Phonebook.add_contact: self.contacts.append(person)
add_contact_front(cs, o) == <<o>> \o cs

add_contact(cs, o) == Append(cs, o)

\* Phonebook.remove_contact: self.contacts.remove(person); list.remove deletes
\* the first element == person and raises ValueError when there is none.
remove_contact_quiet(cs, h, o) ==
    LET i == list_index(cs, h, o, 1)
    IN  IF i = 0
        THEN [err |-> "none", contacts |-> SubSeq(cs, 1, Len(cs) - 1)]
        ELSE [err |-> "none",
              contacts |-> SubSeq(cs, 1, i - 1) \o SubSeq(cs, i + 1, Len(cs))]

remove_contact_all(cs, h, o) ==
    IF list_index(cs, h, o, 1) = 0
    THEN [err |-> "ValueError", contacts |-> cs]
    ELSE [err |-> "none", contacts |-> SelectSeq(cs, LAMBDA x : ~py_eq(h, x, o))]

remove_contact(cs, h, o) ==
    LET i == list_index(cs, h, o, 1)
    IN  IF i = 0
        THEN [err |-> "ValueError", contacts |-> cs]
        ELSE [err |-> "none",
              contacts |-> SubSeq(cs, 1, i - 1) \o SubSeq(cs, i + 1, Len(cs))]

\* Phonebook.update_contact: the for loop with its break, and the else branch
\* that raises ValueError when the loop ends without a match.
RECURSIVE update_loop(_, _, _, _)
update_loop(cs, h, o, index) ==
    IF index > Len(cs) THEN [err |-> "ValueError", contacts |-> cs]
    ELSE IF h[cs[index]].full_name = h[o].full_name
         THEN [err |-> "none", contacts |-> [cs EXCEPT ![index] = o]]
         ELSE update_loop(cs, h, o, index + 1)

update_contact_every(cs, h, o) ==
    IF \E i \in 1..Len(cs) : h[cs[i]].full_name = h[o].full_name
    THEN [err |-> "none",
          contacts |-> [i \in 1..Len(cs) |->
                          IF h[cs[i]].full_name = h[o].full_name THEN o ELSE cs[i]]]
    ELSE [err |-> "ValueError", contacts |-> cs]

update_contact_upsert(cs, h, o) ==
    LET r == update_loop(cs, h, o, 1)
    IN  IF r.err = "none" THEN r ELSE [err |-> "none", contacts |-> Append(cs, o)]

update_contact_none(cs, h, o) ==
    LET r == update_loop(cs, h, o, 1)
    IN  [r EXCEPT !.contacts =
            [i \in 1..Len(cs) |-> IF r.contacts[i] = cs[i] THEN cs[i] ELSE 0]]

update_contact(cs, h, o) == update_loop(cs, h, o, 1)

\* `query in v.lower()`: AttributeError when v is None
lower_has(v, q) ==
    IF v = None THEN "AttributeError"
    ELSE IF contains(q, lower(v)) THEN "True" ELSE "False"

\* `v and query in v.lower()`: a None or empty v short-circuits to false
field_match(v, q) == IF truthy(v) THEN lower_has(v, q) ELSE "False"

\* The order in which search_contacts tests the attributes.
SearchOrder_parts == <<"first_name", "last_name", "phone", "address">>

SearchOrder == <<"first_name", "last_name", "full_name", "phone", "address">>

\* the `or` chain over the five attributes, left to right from position k
RECURSIVE contact_match(_, _, _)
contact_match(c, q, k) ==
    IF k > Len(SearchOrder) THEN "False"
    ELSE LET m == field_match(c[SearchOrder[k]], q)
         IN  IF m = "False" THEN contact_match(c, q, k + 1) ELSE m

\* the loop of search_contacts over self.contacts, from position i
RECURSIVE search_loop(_, _, _, _, _)
search_loop(cs, h, q, i, results) ==
    IF i > Len(cs) THEN [err |-> "none", results |-> results]
    ELSE LET m == contact_match(h[cs[i]], q, 1)
         IN  IF m = "True" THEN search_loop(cs, h, q, i + 1, Append(results, cs[i]))
             ELSE IF m = "False" THEN search_loop(cs, h, q, i + 1, results)
             ELSE [err |-> m, results |-> <<>>]

\* Phonebook.search_contacts
search_contacts_as_typed(cs, h, query) == search_loop(cs, h, query, 1, <<>>)

search_contacts_nonblank(cs, h, query) ==
    IF query = <<>> THEN [err |-> "none", results |-> <<>>]
    ELSE search_loop(cs, h, lower(query), 1, <<>>)

search_contacts(cs, h, query) == search_loop(cs, h, lower(query), 1, <<>>)

----------------------------------------------------------------------------
\* lib/phonebook.py: save_to_file and load_from_file
\*
\* A file is [kind, entries]: kind says what was written ("json", "yaml",
\* "empty" for a file opened for writing and left empty, "absent" for no
\* file), entries is the top-level mapping in the order of the text, each
\* entry a key and a mapping from attribute names to scalars, keys and
\* scalars as the characters of the text.

\* dict[k] = v: a key already present keeps its place and takes the new value
dict_setdefault(d, k, v) ==
    IF \E j \in 1..Len(d) : d[j].key = k THEN d
    ELSE Append(d, [key |-> k, val |-> v])

dict_set(d, k, v) ==
    IF \E j \in 1..Len(d) : d[j].key = k
    THEN [j \in 1..Len(d) |-> IF d[j].key = k THEN [key |-> k, val |-> v] ELSE d[j]]
    ELSE Append(d, [key |-> k, val |-> v])

\* {contact.full_name: contact.__dict__ for contact in self.contacts}
RECURSIVE dict_comprehension(_, _, _, _)
dict_comprehension(cs, h, i, d) ==
    IF i > Len(cs) THEN d
    ELSE dict_comprehension(cs, h, i + 1,
                            dict_set(d, h[cs[i]].full_name, h[cs[i]]))

Null == <<"n", "u", "l", "l">>

\* json.dump of a string or None: "..." or null. The strings of the model
\* hold no character that JSON escapes.
json_scalar(v) == IF v = None THEN Null ELSE <<"\"">> \o v \o <<"\"">>

IsQuoted(t, q) == Len(t) >= 2 /\ t[1] = q /\ t[Len(t)] = q

Unquote(t) == SubSeq(t, 2, Len(t) - 1)

\* json.load of a scalar
json_parse_scalar(t) ==
    IF t = Null THEN [err |-> "none", value |-> None]
    ELSE IF IsQuoted(t, "\"") THEN [err |-> "none", value |-> Unquote(t)]
    ELSE [err |-> "JSONDecodeError", value |-> None]

UpperChar ==
    [c \in Chars |->
        IF Ord[c] \in Ord["a"]..Ord["z"]
        THEN Alphabet[Ord[c] - Ord["a"] + Ord["A"]]
        ELSE c]

\* The plain scalars YAML 1.1 resolves to null or a boolean, in the three
\* spellings it knows (null, Null, NULL).
YamlWords ==
    LET words == { Null, <<"t", "r", "u", "e">>, <<"f", "a", "l", "s", "e">>,
                   <<"y", "e", "s">>, <<"n", "o">>, <<"o", "n">>,
                   <<"o", "f", "f">> }
    IN  UNION { { w,
                  [i \in 1..Len(w) |-> IF i = 1 THEN UpperChar[w[i]] ELSE w[i]],
                  [i \in 1..Len(w) |-> UpperChar[w[i]]] } : w \in words }

YamlNulls == {Null, <<"N", "u", "l", "l">>, <<"N", "U", "L", "L">>}

\* Whether yaml.dump writes the string v plain: not when it is empty, starts
\* or ends with a space, or would be read back as null, a boolean or an
\* integer; such a string is written in single quotes.
yaml_plain(v) ==
    /\ v # <<>>
    /\ v[1] # " "
    /\ v[Len(v)] # " "
    /\ v \notin YamlWords
    /\ \E i \in 1..Len(v) : ~IsDigit(v[i])

\* yaml.dump of a string or None
yaml_scalar(v) ==
    IF v = None THEN Null
    ELSE IF yaml_plain(v) THEN v
    ELSE <<"'">> \o v \o <<"'">>

\* yaml.safe_load of a scalar: quoted text is a string, a plain null is None,
\* other plain text is the string itself (plain integers and booleans do not
\* occur in the files of the model: yaml.dump quotes such strings).
yaml_parse_scalar(t) ==
    IF IsQuoted(t, "'") \/ IsQuoted(t, "\"") THEN Unquote(t)
    ELSE IF t \in YamlNulls THEN None
    ELSE t

\* sorted(mapping.items()): insertion of entry e into the sorted list d
RECURSIVE sorted_insert(_, _)
sorted_insert(d, e) ==
    IF d = <<>> THEN <<e>>
    ELSE IF str_less(e.key, d[1].key) THEN <<e>> \o d
    ELSE <<d[1]>> \o sorted_insert(Tail(d), e)

RECURSIVE sorted_items(_)
sorted_items(d) ==
    IF d = <<>> THEN <<>>
    ELSE sorted_insert(sorted_items(Tail(d)), d[1])

\* the mapping as text, keys and values written by the format's writer
Encode(d, file_format) ==
    LET scalar(v) == IF file_format = "json" THEN json_scalar(v)
                     ELSE yaml_scalar(v)
    IN  [i \in 1..Len(d) |->
            [key |-> scalar(d[i].key),
             val |-> [f \in DOMAIN d[i].val |-> scalar(d[i].val[f])]]]

\* json.dump(data, data_file, indent=4): the entries in the order of the dict
json_dump(data) == [kind |-> "json", entries |-> Encode(data, "json")]

\* yaml.dump(data, data_file): the entries sorted by key (sort_keys=True)
yaml_dump(data) ==
    [kind |-> "yaml", entries |-> Encode(sorted_items(data), "yaml")]

\* Phonebook.save_to_file: open(filename, 'w') empties the file, and a
\* file_format that is neither 'json' nor 'yaml' writes nothing to it.
save_to_file(cs, h, file_format) ==
    LET data == dict_comprehension(cs, h, 1, <<>>)
    IN  IF file_format = "json" THEN json_dump(data)
        ELSE IF file_format = "yaml" THEN yaml_dump(data)
        ELSE [kind |-> "empty", entries |-> <<>>]

\* the mapping of a text, keys and values read by the format's reader
Decode(entries, file_format) ==
    LET scalar(t) == IF file_format = "json" THEN json_parse_scalar(t).value
                     ELSE yaml_parse_scalar(t)
    IN  [i \in 1..Len(entries) |->
            [key |-> scalar(entries[i].key),
             val |-> [f \in DOMAIN entries[i].val |-> scalar(entries[i].val[f])]]]

\* json.load(data_file): JSON text is read; the YAML text of an empty
\* mapping, {}, is JSON too; other YAML text and an empty file are not.
json_load(f) ==
    IF f.kind = "json" \/ (f.kind = "yaml" /\ f.entries = <<>>)
    THEN [err |-> "none", data |-> Decode(f.entries, "json")]
    ELSE [err |-> "JSONDecodeError", data |-> <<>>]

\* yaml.safe_load(data_file): YAML reads JSON text as well; an empty file
\* loads as None, and None.values() raises AttributeError.
yaml_load(f) ==
    IF f.kind = "empty" THEN [err |-> "AttributeError", data |-> <<>>]
    ELSE [err |-> "none", data |-> Decode(f.entries, "yaml")]

\* The with block of load_from_file up to the for loop: open() raises
\* FileNotFoundError; with a file_format that is neither 'json' nor 'yaml'
\* the name data is unbound when the loop reads it.
load_data(f, file_format) ==
    IF f.kind = "absent" THEN [err |-> "FileNotFoundError", data |-> <<>>]
    ELSE IF file_format = "json" THEN json_load(f)
    ELSE IF file_format = "yaml" THEN yaml_load(f)
    ELSE [err |-> "UnboundLocalError", data |-> <<>>]

\* for contact_info in data.values(): from_dict, then append; a KeyError of
\* from_dict ends the loop and keeps what was appended before it.
RECURSIVE load_loop(_, _, _, _)
load_loop(cs, h, data, i) ==
    IF i > Len(data) THEN [err |-> "none", contacts |-> cs, heap |-> h]
    ELSE LET r == from_dict(data[i].val)
         IN  IF r.err # "none" THEN [err |-> r.err, contacts |-> cs, heap |-> h]
             ELSE load_loop(Append(cs, Len(h) + 1), Append(h, r.person),
                            data, i + 1)

\* Phonebook.load_from_file
load_from_file_fresh(cs, h, f, file_format) ==
    LET d == load_data(f, file_format)
    IN  IF d.err # "none" THEN [err |-> d.err, contacts |-> cs, heap |-> h]
        ELSE load_loop(<<>>, h, d.data, 1)

load_from_file(cs, h, f, file_format) ==
    LET d == load_data(f, file_format)
    IN  IF d.err # "none" THEN [err |-> d.err, contacts |-> cs, heap |-> h]
        ELSE load_loop(cs, h, d.data, 1)

----------------------------------------------------------------------------
\* api/bluebook.py: the handlers
\*
\* What the user types at a prompt is a list of answers, read one by one, each
\* a line of text.

\* ' '.join(name_info)
RECURSIVE join(_)
join(name_info) ==
    IF name_info = <<>> THEN <<>>
    ELSE IF Len(name_info) = 1 THEN name_info[1]
    ELSE name_info[1] \o <<" ">> \o join(Tail(name_info))

\* s.strip() of the spaces around s
RECURSIVE strip(_)
strip(s) ==
    IF s = <<>> THEN s
    ELSE IF s[1] = " " THEN strip(Tail(s))
    ELSE IF s[Len(s)] = " " THEN strip(SubSeq(s, 1, Len(s) - 1))
    ELSE s

\* the value of a string of decimal digits
RECURSIVE digits_value(_)
digits_value(s) ==
    IF s = <<>> THEN 0
    ELSE 10 * digits_value(SubSeq(s, 1, Len(s) - 1))
         + (Ord[s[Len(s)]] - Ord["0"])

\* int(choice): the number the text stands for, -1 for the ValueError that
\* text which is no number raises
py_int(choice) ==
    LET s == strip(choice)
    IN  IF s # <<>> /\ \A i \in 1..Len(s) : IsDigit(s[i])
        THEN digits_value(s)
        ELSE -1

\* the while True loop of get_target_contact: the first answer that is a
\* number in 1..n, 0 when the answers run out before one is accepted
RECURSIVE first_choice(_, _)
first_choice(choices, n) ==
    IF choices = <<>> THEN 0
    ELSE IF 1 <= py_int(choices[1]) /\ py_int(choices[1]) <= n
         THEN py_int(choices[1])
         ELSE first_choice(Tail(choices), n)

YesNo == { <<"y", "e", "s">>, <<"y">>, <<"n", "o">>, <<"n">> }

\* the confirmation loop: the first answer that, lower-cased, is one of
\* yes, y, no, n; <<>> when the answers run out
RECURSIVE first_confirmation(_)
first_confirmation(answers) ==
    IF answers = <<>> THEN <<>>
    ELSE IF lower(answers[1]) \in YesNo THEN answers[1]
    ELSE first_confirmation(Tail(answers))

\* get_target_contact(name_info, phonebook): the chosen and confirmed
\* contact, 0 for None.
get_target_contact_first(cs, h, name_info, choices, answers) ==
    LET found == search_contacts(cs, h, join(name_info)).results
    IN  IF found = <<>> THEN 0
        ELSE IF lower(first_confirmation(answers)) \notin { <<"y", "e", "s">>, <<"y">> }
             THEN 0
             ELSE found[1]

get_target_contact(cs, h, name_info, choices, answers) ==
    LET found == search_contacts(cs, h, join(name_info)).results
        contact == IF Len(found) = 1 THEN found[1]
                   ELSE found[first_choice(choices, Len(found))]
    IN  IF found = <<>> THEN 0
        ELSE IF lower(first_confirmation(answers)) \notin { <<"y", "e", "s">>, <<"y">> }
             THEN 0
             ELSE contact

\* Whether get_target_contact returns at all: its prompts are answered.
answered(cs, h, name_info, choices, answers) ==
    LET found == search_contacts(cs, h, join(name_info)).results
    IN  \/ found = <<>>
        \/ /\ Len(found) > 1 => first_choice(choices, Len(found)) # 0
           /\ first_confirmation(answers) # <<>>

\* add_contact(args, phonebook) of api/bluebook.py. a is <<first_name,
\* last_name, phone, address>> as they are once the while True loop is left:
\* one of the names and one of phone and address is non-empty. The Person is
\* built from `args.x or ""` and appended.
api_add_contact(cs, h, a) ==
    LET person == Person(or_empty(a[1]), or_empty(a[2]),
                         or_empty(a[3]), or_empty(a[4]))
    IN  [err |-> "none", contacts |-> add_contact(cs, Len(h) + 1),
         heap |-> Append(h, person)]

\* remove_contact(args, phonebook) of api/bluebook.py: nothing happens when
\* get_target_contact returns None; otherwise phonebook.remove_contact is
\* called with the contact it returned.
api_remove_contact_named(cs, h, name_info, choices, answers) ==
    LET contact == get_target_contact(cs, h, name_info, choices, answers)
        named == {i \in 1..Len(cs) : h[cs[i]].full_name = h[contact].full_name}
        i == CHOOSE i \in named : \A j \in named : i <= j
    IN  IF contact = 0
        THEN [err |-> "none", contacts |-> cs, heap |-> h, target |-> 0]
        ELSE [err |-> "none",
              contacts |-> SubSeq(cs, 1, i - 1) \o SubSeq(cs, i + 1, Len(cs)),
              heap |-> h, target |-> contact]

api_remove_contact(cs, h, name_info, choices, answers) ==
    LET contact == get_target_contact(cs, h, name_info, choices, answers)
        r == remove_contact(cs, h, contact)
    IN  IF contact = 0
        THEN [err |-> "none", contacts |-> cs, heap |-> h, target |-> 0]
        ELSE [err |-> r.err, contacts |-> r.contacts, heap |-> h,
              target |-> contact]

\* update_contact(args, phonebook) of api/bluebook.py. a is <<first_name,
\* last_name, phone, address>> as they are once the two prompt loops are
\* left: one of the names and one of phone and address is non-empty. The
\* four attributes of the target are assigned, full_name is not; then
\* phonebook.update_contact(contact) is called.
api_update_contact_renamed(cs, h, name_info, choices, answers, a) ==
    LET contact == get_target_contact(cs, h, name_info, choices, answers)
        h2 == [h EXCEPT ![contact] =
                  Person(or_empty(a[1]), or_empty(a[2]),
                         or_empty(a[3]), or_empty(a[4]))]
        r == update_contact(cs, h2, contact)
    IN  IF contact = 0
        THEN [err |-> "none", contacts |-> cs, heap |-> h, target |-> 0]
        ELSE [err |-> r.err, contacts |-> r.contacts, heap |-> h2,
              target |-> contact]

api_update_contact_fresh(cs, h, name_info, choices, answers, a) ==
    LET contact == get_target_contact(cs, h, name_info, choices, answers)
        h2 == Append(h, Person(or_empty(a[1]), or_empty(a[2]),
                               or_empty(a[3]), or_empty(a[4])))
        r == update_contact(cs, h2, Len(h2))
    IN  IF contact = 0
        THEN [err |-> "none", contacts |-> cs, heap |-> h, target |-> 0]
        ELSE [err |-> r.err, contacts |-> r.contacts, heap |-> h2,
              target |-> contact]

api_update_contact(cs, h, name_info, choices, answers, a) ==
    LET contact == get_target_contact(cs, h, name_info, choices, answers)
        h2 == [h EXCEPT ![contact] =
                  [@ EXCEPT !.first_name = or_empty(a[1]),
                            !.last_name  = or_empty(a[2]),
                            !.phone      = or_empty(a[3]),
                            !.address    = or_empty(a[4])]]
        r == update_contact(cs, h2, contact)
    IN  IF contact = 0
        THEN [err |-> "none", contacts |-> cs, heap |-> h, target |-> 0]
        ELSE [err |-> r.err, contacts |-> r.contacts, heap |-> h2,
              target |-> contact]

----------------------------------------------------------------------------
\* Inputs

Jane  == <<"J", "a", "n", "e">>
Smith == <<"S", "m", "i", "t", "h">>
Doyle == <<"D", "o", "y", "l", "e">>
Sam   == <<"S", "a", "m">>
Lee   == <<"L", "e", "e">>
Oak   == <<"O", "a", "k">>
Pine  == <<"P", "i", "n", "e">>

\* The arguments Person(...) is constructed with: <<first, last, phone, address>>.
\* Two of them share the full name "Sam Lee" and differ in the other fields;
\* one leaves the address at its default None, one has an empty phone.
PersonInputs ==
    { <<Jane, Smith, <<"1">>, Oak>>,
      <<Jane, Doyle, <<"2">>, Pine>>,
      <<Sam, Lee, <<"1">>, None>>,
      <<Sam, Lee, <<>>, Oak>> }

\* The queries search_contacts is called with.
Queries ==
    { <<>>,
      <<"j", "a", "n", "e">>,
      <<"J", "A", "N", "E">>,
      <<"d", "o", "y", "l", "e">>,
      Sam \o <<" ">> \o Lee,
      <<"1">>,
      <<"n", "o", "n", "e">> }

NoFile == [kind |-> "absent", entries |-> <<>>]

NoCall ==
    [op |-> "init", arg |-> 0, query |-> <<>>, fmt |-> "", input |-> <<>>,
     pre |-> <<>>, preHeap |-> <<>>, err |-> "none", results |-> <<>>]

\* A call op(arg) made in the current state, before its outcome is filled in.
Call(op, arg) ==
    [NoCall EXCEPT !.op = op, !.arg = arg, !.pre = contacts, !.preHeap = heap]

Objs == 1..Len(heap)

\* No invocation of main() is under way.
NoRun ==
    [pc |-> "none", args |-> <<>>, log |-> <<>>, prev |-> <<>>,
     export |-> NoFile]

----------------------------------------------------------------------------
\* The library calls a client makes on one Phonebook

\* Phonebook(): self.contacts = []; no Person exists yet.
Init ==
    /\ heap = <<>>
    /\ contacts = <<>>
    /\ file = NoFile
    /\ last = NoCall
    /\ snap = [saved |-> FALSE, people |-> <<>>]
    /\ run = NoRun

\* p = Person(first, last, phone, address)
Construct ==
    \E a \in PersonInputs :
        /\ Len(heap) < MaxObjs
        /\ heap' = Append(heap, Person(a[1], a[2], a[3], a[4]))
        /\ last' = Call("Person", Len(heap) + 1)
        /\ UNCHANGED <<contacts, file, snap, run>>

\* phonebook.add_contact(o), o any Person the client holds
AddContact ==
    \E o \in Objs :
        /\ Len(contacts) < MaxLen
        /\ contacts' = add_contact(contacts, o)
        /\ last' = Call("add", o)
        /\ UNCHANGED <<heap, file, snap, run>>

\* phonebook.remove_contact(o)
RemoveContact ==
    \E o \in Objs :
        LET r == remove_contact(contacts, heap, o)
        IN  /\ contacts' = r.contacts
            /\ last' = [Call("remove", o) EXCEPT !.err = r.err]
            /\ UNCHANGED <<heap, file, snap, run>>

\* phonebook.update_contact(o)
UpdateContact ==
    \E o \in Objs :
        LET r == update_contact(contacts, heap, o)
        IN  /\ contacts' = r.contacts
            /\ last' = [Call("update", o) EXCEPT !.err = r.err]
            /\ UNCHANGED <<heap, file, snap, run>>

\* phonebook.search_contacts(query)
SearchContacts ==
    \E query \in Queries :
        LET r == search_contacts(contacts, heap, query)
        IN  /\ last' = [Call("search", 0) EXCEPT
                            !.query = query, !.err = r.err, !.results = r.results]
            /\ UNCHANGED <<heap, contacts, file, snap, run>>

Next ==
    \/ Construct
    \/ AddContact
    \/ RemoveContact
    \/ UpdateContact
    \/ SearchContacts

Spec == Init /\ [][Next]_vars

----------------------------------------------------------------------------
\* Properties of the list operations

\* cs without its element at position i
Without(cs, i) == SubSeq(cs, 1, i - 1) \o SubSeq(cs, i + 1, Len(cs))

\* the least member of a non-empty set of positions
Least(S) == CHOOSE i \in S : \A j \in S : i <= j

\* how often object o occurs in the list cs
Count(cs, o) == Cardinality({i \in 1..Len(cs) : cs[i] = o})

\* The positions of last.pre holding a contact whose fields all equal those of
\* the argument of the last call.
EqualPositions ==
    {i \in 1..Len(last.pre) : last.preHeap[last.pre[i]] = last.preHeap[last.arg]}

\* The positions of last.pre holding the very object the last call was given.
SamePositions == {i \in 1..Len(last.pre) : last.pre[i] = last.arg}

\* The positions of last.pre whose contact has the full_name of the argument.
NamePositions ==
    {i \in 1..Len(last.pre) :
        last.preHeap[last.pre[i]].full_name = last.preHeap[last.arg].full_name}

\* C1 as stated: remove(contact) removes the first element whose fields equal
\* those of contact, also when contact is another object than the stored one;
\* the length drops by one and the other elements keep their order.
C1_RemovesFirstFieldwiseEqual ==
    (last.op = "remove" /\ EqualPositions # {}) =>
        /\ last.err = "none"
        /\ contacts = Without(last.pre, Least(EqualPositions))

\* C1 amended: remove(contact) removes the first element that is the object
\* contact itself; the length drops by one and the other elements keep their
\* order. An object that only has the same fields as a stored one is not
\* matched: the call raises ValueError and the list stays as it was.
C1_RemovesFirstSameObject ==
    last.op = "remove" =>
        /\ heap = last.preHeap
        /\ IF SamePositions # {}
           THEN /\ last.err = "none"
                /\ contacts = Without(last.pre, Least(SamePositions))
                /\ Len(contacts) = Len(last.pre) - 1
           ELSE /\ last.err = "ValueError"
                /\ contacts = last.pre

\* C1 witness: a stored object was removed although an earlier element of the
\* list had the same fields.
C1_Witness ==
    /\ last.op = "remove"
    /\ last.err = "none"
    /\ SamePositions # {}
    /\ Least(EqualPositions) < Least(SamePositions)

\* C2: remove(c) with no element equal to c, field by field, raises (ValueError
\* is the NotFoundError of this code) and leaves the list as it was.
C2_RemoveAbsentFails ==
    (last.op = "remove" /\ EqualPositions = {}) =>
        /\ last.err = "ValueError"
        /\ contacts = last.pre
        /\ heap = last.preHeap

\* C2 witness: a remove on a non-empty list that holds no equal contact.
C2_Witness ==
    /\ last.op = "remove"
    /\ last.pre # <<>>
    /\ EqualPositions = {}
    /\ last.err = "ValueError"

\* C4: update(c') puts c' at the position of the first element with its
\* full_name; the length and every other element, later elements of the same
\* full_name included, stay as they were.
C4_UpdateReplacesFirstMatch ==
    (last.op = "update" /\ NamePositions # {}) =>
        /\ last.err = "none"
        /\ Len(contacts) = Len(last.pre)
        /\ contacts[Least(NamePositions)] = last.arg
        /\ \A j \in 1..Len(last.pre) :
              j # Least(NamePositions) => contacts[j] = last.pre[j]
        /\ heap = last.preHeap

\* C4 witness: an update where a later element has the same full_name, is
\* another object than c', and is still in its place.
C4_Witness ==
    /\ last.op = "update"
    /\ last.err = "none"
    /\ \E j \in NamePositions :
          /\ j > Least(NamePositions)
          /\ last.pre[j] # last.arg
          /\ contacts[j] = last.pre[j]

\* C5: update(c') with no element of c'.full_name raises (ValueError) and
\* leaves the list as it was.
C5_UpdateAbsentFails ==
    (last.op = "update" /\ NamePositions = {}) =>
        /\ last.err = "ValueError"
        /\ contacts = last.pre
        /\ heap = last.preHeap

\* C5 witness: a failed update on a non-empty list.
C5_Witness ==
    /\ last.op = "update"
    /\ last.pre # <<>>
    /\ NamePositions = {}
    /\ last.err = "ValueError"

\* Whether contact c matches the query as the specification words it: the
\* lower-cased query is a substring of the lower-cased value of a present,
\* non-empty attribute.
Matches(c, query) ==
    \E f \in Fields :
        /\ c[f] # None
        /\ c[f] # <<>>
        /\ contains(lower(query), lower(c[f]))

\* The positions of last.pre whose contact matches the query of the last call.
MatchPositions ==
    {i \in 1..Len(last.pre) : Matches(last.preHeap[last.pre[i]], last.query)}

\* The k-th matching position, counted from the front of the list.
KthMatch(k) ==
    CHOOSE i \in MatchPositions :
        Cardinality({j \in MatchPositions : j <= i}) = k

\* C6: search(query) never raises and returns the matching contacts, each
\* once, in the order of the list; with Jane Smith and Jane Doyle added in
\* that order, "jane" finds both and "doyle" finds the second only.
C6_SearchReturnsMatchesInOrder ==
    last.op = "search" =>
        /\ last.err = "none"
        /\ Len(last.results) = Cardinality(MatchPositions)
        /\ \A k \in 1..Len(last.results) : last.results[k] = last.pre[KthMatch(k)]
        /\ contacts = last.pre
        /\ heap = last.preHeap
        /\ ( /\ Len(last.pre) = 2
             /\ heap[last.pre[1]] = Person(Jane, Smith, <<"1">>, Oak)
             /\ heap[last.pre[2]] = Person(Jane, Doyle, <<"2">>, Pine) ) =>
               /\ last.query = <<"j", "a", "n", "e">> => last.results = last.pre
               /\ last.query = <<"d", "o", "y", "l", "e">> =>
                     last.results = <<last.pre[2]>>

\* C6 witness: an upper-case query finds Jane Smith and Jane Doyle, in the
\* order they were added.
C6_Witness ==
    /\ last.op = "search"
    /\ last.query = <<"J", "A", "N", "E">>
    /\ Len(last.pre) = 2
    /\ heap[last.pre[1]] = Person(Jane, Smith, <<"1">>, Oak)
    /\ heap[last.pre[2]] = Person(Jane, Doyle, <<"2">>, Pine)
    /\ last.results = last.pre

\* C7: add(contact) succeeds and the list is the former list with contact at
\* its end; contacts already stored, or of a stored full_name, are accepted.
C7_AddAppends ==
    last.op = "add" =>
        /\ last.err = "none"
        /\ Len(contacts) = Len(last.pre) + 1
        /\ \A i \in 1..Len(last.pre) : contacts[i] = last.pre[i]
        /\ contacts[Len(contacts)] = last.arg
        /\ heap = last.preHeap

\* C7 witness: a contact was added to a list that held a contact of the same
\* full_name already.
C7_Witness ==
    /\ last.op = "add"
    /\ NamePositions # {}
    /\ contacts = Append(last.pre, last.arg)

\* how often the search for the full_name of the last call's argument, made
\* in the current state, returns that argument
FoundAfter ==
    Count(search_contacts(contacts, heap, heap[last.arg].full_name).results,
          last.arg)

\* C8 as stated: remove(c) of a stored c shortens the list by one, and a
\* search for c.full_name afterwards does not return c.
C8_RemovedIsNotFound ==
    (last.op = "remove" /\ SamePositions # {}) =>
        /\ Len(contacts) = Len(last.pre) - 1
        /\ FoundAfter = 0

\* C8 amended: remove(c) of a stored c shortens the list by one and takes
\* out one occurrence of c; a search for c.full_name afterwards returns c
\* once for every occurrence that is left, so never when c was stored once.
C8_RemoveTakesOneOccurrence ==
    (last.op = "remove" /\ SamePositions # {}) =>
        /\ Len(contacts) = Len(last.pre) - 1
        /\ Count(contacts, last.arg) = Count(last.pre, last.arg) - 1
        /\ FoundAfter = Count(last.pre, last.arg) - 1

\* C8 witness: c was stored twice, one occurrence was removed and the search
\* still returns c.
C8_Witness ==
    /\ last.op = "remove"
    /\ last.err = "none"
    /\ Count(last.pre, last.arg) = 2
    /\ FoundAfter = 1

\* C11: right after add(c), on an empty list or any other, search(c.full_name)
\* raises nothing and its result includes c, once for every place c has in
\* the list.
C11_AddedIsFound ==
    last.op = "add" =>
        /\ search_contacts(contacts, heap, heap[last.arg].full_name).err = "none"
        /\ FoundAfter >= 1
        /\ FoundAfter = Count(contacts, last.arg)

\* C11 witness: Jane Smith was added to an empty list and the search for
\* "Jane Smith" returns exactly her.
C11_Witness ==
    /\ last.op = "add"
    /\ last.pre = <<>>
    /\ heap[last.arg].full_name = Jane \o <<" ">> \o Smith
    /\ search_contacts(contacts, heap, heap[last.arg].full_name).results
          = <<last.arg>>

----------------------------------------------------------------------------
\* Saving, loading and the update handler

\* A file somebody wrote by hand: one record, filed under a key that is not
\* its name, without phone, address and full_name.
HandFile ==
    [kind |-> "json",
     entries |-> << [key |-> json_scalar(<<"b", "o", "s", "s">>),
                     val |-> [f \in {"first_name", "last_name"} |->
                                IF f = "first_name" THEN json_scalar(Sam)
                                ELSE json_scalar(Lee)]] >>]

\* Another one: a record whose names are empty strings, filed under "x".
BlankFile ==
    [kind |-> "json",
     entries |-> << [key |-> json_scalar(<<"x">>),
                     val |-> [f \in {"first_name", "last_name"} |->
                                json_scalar(<<>>)]] >>]

Formats == {"json", "yaml", "xml"}

\* The names the update and remove handlers are called for (args.update,
\* args.remove).
UpdateNames == { <<Sam, Lee>> }

\* The answers at the item prompt and at the confirmation prompt.
ChoiceInputs == { << <<"1">> >>, << <<"x">>, <<"0">>, <<"9">>, <<"2">> >> }

ConfirmInputs == { <<<<"Y", "e", "s">>>>, <<<<"o", "k">>, <<"n">>>> }

\* The new <<first_name, last_name, phone, address>> of an update.
UpdateInputs == { <<Jane, Doyle, None, Pine>> }

\* The <<first_name, last_name, phone, address>> the add handler is given:
\* the same name twice, with other fields.
AddInputs ==
    { <<Sam, Lee, <<"1">>, None>>,
      <<Sam, Lee, None, Oak>> }

NoSnap == [saved |-> FALSE, people |-> <<>>]

InitIO ==
    /\ heap = <<>>
    /\ contacts = <<>>
    /\ file \in {NoFile, HandFile, BlankFile}
    /\ last = NoCall
    /\ snap = NoSnap
    /\ run = NoRun

\* A new process: main() starts with phonebook = Phonebook(), and no Person
\* of an earlier run exists.
NewProcess ==
    /\ heap' = <<>>
    /\ contacts' = <<>>
    /\ last' = Call("main", 0)
    /\ UNCHANGED <<file, snap, run>>

\* phonebook.save_to_file(filename, file_format)
SaveToFile ==
    \E file_format \in Formats :
        /\ file' = save_to_file(contacts, heap, file_format)
        /\ snap' = [saved |-> TRUE,
                    people |-> [i \in 1..Len(contacts) |-> heap[contacts[i]]]]
        /\ last' = [Call("save", 0) EXCEPT !.fmt = file_format]
        /\ UNCHANGED <<heap, contacts, run>>

\* phonebook.load_from_file(filename, file_format)
LoadFromFile ==
    \E file_format \in Formats :
        LET r == load_from_file(contacts, heap, file, file_format)
        IN  /\ Len(r.heap) <= MaxObjs
            /\ Len(r.contacts) <= MaxLen
            /\ heap' = r.heap
            /\ contacts' = r.contacts
            /\ last' = [Call("load", 0) EXCEPT !.fmt = file_format, !.err = r.err]
            /\ UNCHANGED <<file, snap, run>>

\* add_contact(args, phonebook) of api/bluebook.py
ApiAddContact ==
    \E a \in AddInputs :
        LET r == api_add_contact(contacts, heap, a)
        IN  /\ Len(heap) < MaxObjs
            /\ Len(contacts) < MaxLen
            /\ heap' = r.heap
            /\ contacts' = r.contacts
            /\ last' = [Call("api_add", Len(heap) + 1) EXCEPT !.err = r.err]
            /\ UNCHANGED <<file, snap, run>>

\* update_contact(args, phonebook) of api/bluebook.py
ApiUpdateContact ==
    \E name_info \in UpdateNames, choices \in ChoiceInputs,
       answers \in ConfirmInputs, a \in UpdateInputs :
        /\ answered(contacts, heap, name_info, choices, answers)
        /\ LET r == api_update_contact(contacts, heap, name_info, choices,
                                       answers, a)
           IN  /\ heap' = r.heap
               /\ contacts' = r.contacts
               /\ last' = [Call("api_update", r.target) EXCEPT
                              !.query = join(name_info), !.input = a,
                              !.err = r.err]
        /\ UNCHANGED <<file, snap, run>>

NextIO ==
    \/ ApiAddContact
    \/ ApiUpdateContact
    \/ SaveToFile
    \/ LoadFromFile
    \/ NewProcess

SpecIO == InitIO /\ [][NextIO]_vars

----------------------------------------------------------------------------
\* Properties of saving and loading

\* the fields of the contacts now in the list, in list order
People == [i \in 1..Len(contacts) |-> heap[contacts[i]]]

PeopleSet(ps) == {ps[i] : i \in 1..Len(ps)}

\* The mapping in the file, read back with the reader of the format it was
\* written in.
FileData == load_data(file, file.kind).data

\* The last load read, into an empty list, the file that the last save wrote,
\* in the format it was written in, and the saved contacts had pairwise
\* distinct full names.
RoundTrip ==
    /\ last.op = "load"
    /\ last.pre = <<>>
    /\ snap.saved
    /\ file.kind \in {"json", "yaml"}
    /\ last.fmt = file.kind
    /\ \A i, j \in 1..Len(snap.people) :
          snap.people[i].full_name = snap.people[j].full_name => i = j

\* C3: saving a list of contacts with pairwise distinct full names and loading
\* the file into an empty list gives contacts equal to the saved ones in
\* first_name, last_name, phone, address and full_name, also after names were
\* changed through the update handler.
C3_RoundTripEqualFields ==
    RoundTrip =>
        /\ last.err = "none"
        /\ PeopleSet(People) = PeopleSet(snap.people)

\* the last position of the saved list whose contact has full name n
LastNamed(n) ==
    CHOOSE i \in 1..Len(snap.people) :
        /\ snap.people[i].full_name = n
        /\ \A j \in 1..Len(snap.people) :
              snap.people[j].full_name = n => j <= i

\* C9: the mapping save writes has one entry for each full_name in the list,
\* under that full_name, holding the fields of the last contact of that name;
\* two contacts of one name are no error.
C9_LastOfEachNameIsSaved ==
    (last.op = "save" /\ last.fmt \in {"json", "yaml"}) =>
        /\ last.err = "none"
        /\ file.kind = last.fmt
        /\ Len(FileData) = Cardinality({p.full_name : p \in PeopleSet(snap.people)})
        /\ \A p \in PeopleSet(snap.people) :
              \E k \in 1..Len(FileData) :
                  /\ FileData[k].key = p.full_name
                  /\ FileData[k].val = snap.people[LastNamed(p.full_name)]

\* C9 witness: two contacts named Sam Lee with different fields were saved,
\* and the file holds one entry, with the fields of the second.
C9_Witness ==
    /\ last.op = "save"
    /\ last.fmt \in {"json", "yaml"}
    /\ Len(snap.people) = 2
    /\ snap.people[1].full_name = Sam \o <<" ">> \o Lee
    /\ snap.people[2].full_name = Sam \o <<" ">> \o Lee
    /\ snap.people[1] # snap.people[2]
    /\ Len(FileData) = 1
    /\ FileData[1].val = snap.people[2]

\* The mapping the last load read.
Loaded == load_data(file, last.fmt).data

\* the Person a record of the file stands for: first_name and last_name as
\* given, phone and address absent (None) when the record has none
Expected(val) ==
    Person(val["first_name"], val["last_name"],
           IF "phone" \in DOMAIN val THEN val["phone"] ELSE None,
           IF "address" \in DOMAIN val THEN val["address"] ELSE None)

\* C10: load appends. The contacts held before stay, in their places and
\* unchanged; a load that ends without error adds one new Person for each
\* value of the mapping, after them, whatever the keys are.
C10_LoadAppends ==
    last.op = "load" =>
        /\ Len(contacts) >= Len(last.pre)
        /\ SubSeq(contacts, 1, Len(last.pre)) = last.pre
        /\ SubSeq(heap, 1, Len(last.preHeap)) = last.preHeap
        /\ last.err = "none" =>
              /\ Len(contacts) = Len(last.pre) + Len(Loaded)
              /\ \A k \in 1..Len(Loaded) :
                    /\ contacts[Len(last.pre) + k] = Len(last.preHeap) + k
                    /\ heap[contacts[Len(last.pre) + k]] = Expected(Loaded[k].val)

\* C10 witness: the same file was loaded a second time, and the list now
\* holds each of its contacts twice, as two objects.
C10_Witness ==
    /\ last.op = "load"
    /\ last.err = "none"
    /\ Len(last.pre) >= 1
    /\ Len(contacts) = 2 * Len(last.pre)
    /\ \A i \in 1..Len(last.pre) :
          /\ contacts[Len(last.pre) + i] # contacts[i]
          /\ heap[contacts[Len(last.pre) + i]] = heap[contacts[i]]

\* C12: in every state, whatever was added, loaded or changed through the
\* update handler, search("") raises nothing and returns every contact of
\* the list, in the order of the list.
C12_EmptyQueryFindsAll ==
    search_contacts(contacts, heap, <<>>) = [err |-> "none", results |-> contacts]

\* C12 witness: the list holds a contact whose first_name and last_name are
\* empty and whose phone and address are None, next to another contact, and
\* search("") returns both.
C12_Witness ==
    /\ Len(contacts) >= 2
    /\ \E i \in 1..Len(contacts) :
          /\ ~truthy(heap[contacts[i]].first_name)
          /\ ~truthy(heap[contacts[i]].last_name)
          /\ ~truthy(heap[contacts[i]].phone)
          /\ ~truthy(heap[contacts[i]].address)
    /\ search_contacts(contacts, heap, <<>>).results = contacts

\* C13: a save or a load with a file_format that is neither 'json' nor 'yaml'
\* fails: an error reaches the caller, the request is not silently accepted.
C13_UnsupportedFormatFails ==
    (last.op \in {"save", "load"} /\ last.fmt \notin {"json", "yaml"}) =>
        last.err # "none"

\* first_name + " " + last_name
FullName(first_name, last_name) == first_name \o <<" ">> \o last_name

\* the keys of the mapping save_to_file would write now
SavedKeys ==
    LET data == dict_comprehension(contacts, heap, 1, <<>>)
    IN  {data[k].key : k \in 1..Len(data)}

\* C15: full_name is first_name + " " + last_name when the Person is built
\* (by the add handler or by a load) and is never computed again: an object
\* keeps its full_name through every call, and after the update handler has
\* assigned new names to its target the target still has the old full_name,
\* under which update_contact matches it, search finds it and save files it.
C15_FullNameIsSetOnce ==
    /\ \A o \in 1..Len(heap) :
          IF o <= Len(last.preHeap)
          THEN heap[o].full_name = last.preHeap[o].full_name
          ELSE (heap[o].first_name # None /\ heap[o].last_name # None) =>
                  heap[o].full_name
                      = FullName(heap[o].first_name, heap[o].last_name)
    /\ (last.op = "api_update" /\ last.arg # 0) =>
          LET old == last.preHeap[last.arg].full_name
          IN  /\ heap[last.arg].first_name = or_empty(last.input[1])
              /\ heap[last.arg].last_name = or_empty(last.input[2])
              /\ heap[last.arg].full_name = old
              /\ last.err = "none"
              /\ update_contact(contacts, heap, last.arg).err = "none"
              /\ \E k \in 1..Len(contacts) :
                    search_contacts(contacts, heap, old).results[k] = last.arg
              /\ old \in SavedKeys
              /\ SavedKeys = {heap[contacts[i]].full_name : i \in 1..Len(contacts)}

\* C15 witness: the update handler renamed Sam Lee to Jane Doyle; the contact
\* is still filed and found under "Sam Lee", and neither filed nor found
\* under "Jane Doyle".
C15_Witness ==
    /\ last.op = "api_update"
    /\ last.arg # 0
    /\ heap[last.arg].first_name = Jane
    /\ heap[last.arg].last_name = Doyle
    /\ heap[last.arg].full_name = FullName(Sam, Lee)
    /\ FullName(Sam, Lee) \in SavedKeys
    /\ FullName(Jane, Doyle) \notin SavedKeys
    /\ search_contacts(contacts, heap, FullName(Jane, Doyle)).results = <<>>

\* C16: the list never holds None: each of its elements is a Person object,
\* after every add, update and load, and also when the update handler was
\* left without a target.
C16_NoNoneInList ==
    \A i \in 1..Len(contacts) : contacts[i] # 0 /\ contacts[i] \in 1..Len(heap)

\* C16 witness: get_target_contact returned None to the update handler, on a
\* list of two contacts, and the list still holds its two Person objects.
C16_Witness ==
    /\ last.op = "api_update"
    /\ last.arg = 0
    /\ Len(contacts) = 2
    /\ \A i \in 1..Len(contacts) : contacts[i] \in 1..Len(heap)

----------------------------------------------------------------------------
\* The handlers of api/bluebook.py, called on one Phonebook

\* The names the remove handler and get_target_contact are called for: one
\* that the added contacts have, one that only updated contacts have.
NameInfos == { <<Sam, Lee>>, <<Jane>> }

InitCLI ==
    /\ heap = <<>>
    /\ contacts = <<>>
    /\ file = NoFile
    /\ last = NoCall
    /\ snap = NoSnap
    /\ run = NoRun

\* contact = get_target_contact(name_info, phonebook)
GetTargetContact ==
    \E name_info \in NameInfos, choices \in ChoiceInputs,
       answers \in ConfirmInputs :
        /\ answered(contacts, heap, name_info, choices, answers)
        /\ last' = [Call("get_target",
                         get_target_contact(contacts, heap, name_info,
                                            choices, answers)) EXCEPT
                        !.query = join(name_info),
                        !.input = <<name_info, choices, answers>>]
        /\ UNCHANGED <<heap, contacts, file, snap, run>>

\* remove_contact(args, phonebook) of api/bluebook.py
ApiRemoveContact ==
    \E name_info \in NameInfos, choices \in ChoiceInputs,
       answers \in ConfirmInputs :
        /\ answered(contacts, heap, name_info, choices, answers)
        /\ LET r == api_remove_contact(contacts, heap, name_info, choices, answers)
           IN  /\ contacts' = r.contacts
               /\ last' = [Call("api_remove", r.target) EXCEPT
                              !.query = join(name_info),
                              !.input = <<name_info, choices, answers>>,
                              !.err = r.err]
        /\ UNCHANGED <<heap, file, snap, run>>

NextCLI ==
    \/ ApiAddContact
    \/ GetTargetContact
    \/ ApiRemoveContact
    \/ ApiUpdateContact

SpecCLI == InitCLI /\ [][NextCLI]_vars

\* The decimal numeral of k, for k in 0..9.
Numeral(k) == <<Alphabet[Ord["0"] + k]>>

\* What the user of the last call typed: the words of the name, the lines at
\* the item prompt and the lines at the confirmation prompt.
Typed == [name_info |-> last.input[1], choices |-> last.input[2],
          answers |-> last.input[3]]

\* The item number the user chose among n items: the number of the first
\* line that is the numeral of one of 1..n, 0 when there is no such line.
ChosenItem(n) ==
    LET ok(j) == \E k \in 1..n : Typed.choices[j] = Numeral(k)
        js == {j \in 1..Len(Typed.choices) : ok(j)}
    IN  IF js = {} THEN 0
        ELSE CHOOSE k \in 1..n : Typed.choices[Least(js)] = Numeral(k)

\* Whether the user said yes: the first line that is yes, y, no or n, in any
\* case of letters, is yes or y.
SaidYes ==
    LET js == {j \in 1..Len(Typed.answers) : lower(Typed.answers[j]) \in YesNo}
    IN  /\ js # {}
        /\ lower(Typed.answers[Least(js)]) \in { <<"y", "e", "s">>, <<"y">> }

\* The contact the user selected and confirmed, 0 when there is none: the
\* matches are those of the search for the words joined by single spaces.
Selected ==
    LET n == Cardinality(MatchPositions)
    IN  IF n = 0 \/ ~SaidYes THEN 0
        ELSE IF n = 1 THEN last.pre[KthMatch(1)]
        ELSE last.pre[KthMatch(ChosenItem(n))]

\* the words joined by single spaces, for one word or two
SpaceJoined(words) ==
    IF Len(words) = 1 THEN words[1] ELSE FullName(words[1], words[2])

\* C17: when the update handler has a target (selected and confirmed), it
\* raises nothing, the list keeps its length, the target is still at every
\* position it had, and its first_name, last_name, phone and address are the
\* values supplied (an option not given being the empty string), also when
\* the supplied names are not the names the target had.
C17_HandlerUpdateSucceeds ==
    (last.op = "api_update" /\ last.arg # 0) =>
        /\ last.err = "none"
        /\ Len(contacts) = Len(last.pre)
        /\ \E i \in 1..Len(last.pre) : last.pre[i] = last.arg
        /\ \A i \in 1..Len(last.pre) :
              last.pre[i] = last.arg => contacts[i] = last.arg
        /\ heap[last.arg].first_name = or_empty(last.input[1])
        /\ heap[last.arg].last_name = or_empty(last.input[2])
        /\ heap[last.arg].phone = or_empty(last.input[3])
        /\ heap[last.arg].address = or_empty(last.input[4])

\* C17 witness: the target, second in the list, was given names it did not
\* have; it is still second and has the new names.
C17_Witness ==
    /\ last.op = "api_update"
    /\ last.arg # 0
    /\ Len(last.pre) = 2
    /\ last.pre[2] = last.arg
    /\ last.pre[1] # last.arg
    /\ last.preHeap[last.arg].first_name = Sam
    /\ contacts[2] = last.arg
    /\ heap[last.arg].first_name = Jane
    /\ heap[last.arg].last_name = Doyle
    /\ heap[last.arg].phone = <<>>

\* C18: the remove handler takes out of the list the contact the user
\* selected and confirmed, that object at one of its places and nothing
\* else, so the list is one shorter; with no match for the name, or without
\* a yes, the list stays as it was.
C18_HandlerRemovesSelected ==
    last.op = "api_remove" =>
        /\ last.query = SpaceJoined(Typed.name_info)
        /\ last.arg = Selected
        /\ last.err = "none"
        /\ heap = last.preHeap
        /\ IF Selected = 0
           THEN contacts = last.pre
           ELSE /\ Len(contacts) = Len(last.pre) - 1
                /\ \E i \in 1..Len(last.pre) :
                      /\ last.pre[i] = Selected
                      /\ contacts = Without(last.pre, i)

\* C18 witness: of two contacts equal in every field the user chose the
\* second; the second is gone and the first is still there.
C18_Witness ==
    /\ last.op = "api_remove"
    /\ Len(last.pre) = 2
    /\ last.pre[1] # last.pre[2]
    /\ heap[last.pre[1]] = heap[last.pre[2]]
    /\ last.arg = last.pre[2]
    /\ contacts = <<last.pre[1]>>

\* C19: get_target_contact returns None when the search for the joined name
\* finds nothing or the user does not say yes; otherwise it returns the only
\* result, or of several the one at the item number the user chose, lines
\* that are no number in range being asked again; what it returns is in the
\* list, and the list and its contacts stay as they were.
C19_TargetIsSelected ==
    last.op = "get_target" =>
        /\ last.query = SpaceJoined(Typed.name_info)
        /\ last.arg = Selected
        /\ last.arg # 0 => \E i \in MatchPositions : contacts[i] = last.arg
        /\ contacts = last.pre
        /\ heap = last.preHeap

\* C19 witness: two results; the lines x, 0 and 9 were refused, 2 was taken,
\* the user said yes, and the second result was returned.
C19_Witness ==
    /\ last.op = "get_target"
    /\ Cardinality(MatchPositions) = 2
    /\ Typed.choices[1] = <<"x">>
    /\ ChosenItem(2) = 2
    /\ SaidYes
    /\ last.arg = last.pre[KthMatch(2)]
    /\ last.arg # last.pre[KthMatch(1)]

----------------------------------------------------------------------------
\* api/bluebook.py: main(), one invocation of the program after another
\*
\* run.args is what get_options returns: flags, the options that are set;
\* name_info, the words given with --remove, --update or --search; fields,
\* <<first_name, last_name, phone, address>> as given with the options.

\* The commands in the order of the if/elif chain of handle_commands.
CommandOrder ==
    << "add", "remove", "update", "search", "export_json", "export_yaml",
       "display_all_contacts", "export_html" >>

\* the branch the chain takes: the first command whose flag is set, "none"
\* for the else branch
RECURSIVE first_command(_, _)
first_command(flags, k) ==
    IF k > Len(CommandOrder) THEN "none"
    ELSE IF CommandOrder[k] \in flags THEN CommandOrder[k]
    ELSE first_command(flags, k + 1)

\* generate_contacts_html and export_and_open_html: the five attributes of
\* every contact, each as the f-string renders it, written to a new file
generate_contacts_html(cs, h) ==
    [kind |-> "html",
     entries |-> [i \in 1..Len(cs) |-> [f \in Fields |-> format(h[cs[i]][f])]]]

\* export_phonebook: save_to_file to a new file under EXPORTS_DIR
export_phonebook(cs, h, export_format) == save_to_file(cs, h, export_format)

\* handle_commands(args, phonebook). A prompt of get_target_contact that the
\* user leaves unanswered ends the handler with KeyboardInterrupt. e is the
\* file exported last.
handle_commands(cs, h, e, args, choices, answers) ==
    LET cmd == first_command(args.flags, 1)
        same == [handler |-> cmd, err |-> "none", contacts |-> cs, heap |-> h,
                 export |-> e, target |-> 0, results |-> <<>>]
        stopped == ~answered(cs, h, args.name_info, choices, answers)
    IN  IF cmd = "add"
        THEN LET r == api_add_contact(cs, h, args.fields)
             IN  [same EXCEPT !.err = r.err, !.contacts = r.contacts,
                              !.heap = r.heap, !.target = Len(r.heap)]
        ELSE IF cmd \in {"remove", "update"} /\ stopped
        THEN [same EXCEPT !.err = "KeyboardInterrupt"]
        ELSE IF cmd = "remove"
        THEN LET r == api_remove_contact(cs, h, args.name_info, choices, answers)
             IN  [same EXCEPT !.err = r.err, !.contacts = r.contacts,
                              !.target = r.target]
        ELSE IF cmd = "update"
        THEN LET r == api_update_contact(cs, h, args.name_info, choices,
                                         answers, args.fields)
             IN  [same EXCEPT !.err = r.err, !.contacts = r.contacts,
                              !.heap = r.heap, !.target = r.target]
        ELSE IF cmd = "search"
        THEN LET r == search_contacts(cs, h, join(args.name_info))
             IN  [same EXCEPT !.err = r.err, !.results = r.results]
        ELSE IF cmd = "export_json"
        THEN [same EXCEPT !.export = export_phonebook(cs, h, "json")]
        ELSE IF cmd = "export_yaml"
        THEN [same EXCEPT !.export = export_phonebook(cs, h, "yaml")]
        ELSE IF cmd = "export_html"
        THEN [same EXCEPT !.export = generate_contacts_html(cs, h)]
        ELSE same

\* Where main() goes on after a call: an exception of the call leaves main().
next_pc_swallow(err, pc) == pc

next_pc(err, pc) == IF err = "none" THEN pc ELSE "failed"

\* get_options: the group of commands is mutually exclusive and required, so
\* exactly one flag is set.
Commands == { {CommandOrder[k]} : k \in 1..Len(CommandOrder) }

ArgFields(flags) ==
    IF "add" \in flags THEN AddInputs
    ELSE IF "update" \in flags THEN UpdateInputs
    ELSE { <<>> }

ArgNames(flags) ==
    IF flags \cap {"remove", "update", "search"} # {} THEN UpdateNames
    ELSE { <<>> }

\* The user may leave a prompt unanswered.
MainChoices == ChoiceInputs

MainAnswers == ConfirmInputs \cup { <<>> }

InitMain ==
    /\ heap = <<>>
    /\ contacts = <<>>
    /\ file \in {NoFile, HandFile}
    /\ last = NoCall
    /\ snap = NoSnap
    /\ run = NoRun

\* A new process: args = get_options(); phonebook = Phonebook()
MainStart ==
    \E flags \in Commands :
        \E name_info \in ArgNames(flags), fields \in ArgFields(flags) :
            /\ run.pc \in {"none", "done", "failed"}
            /\ heap' = <<>>
            /\ contacts' = <<>>
            /\ run' = [pc |-> "load",
                       args |-> [flags |-> flags, name_info |-> name_info,
                                 fields |-> fields],
                       log |-> <<>>, prev |-> run.log,
                       export |-> run.export]
            /\ last' = Call("main", 0)
            /\ UNCHANGED <<file, snap>>

\* phonebook.load_from_file(JSON_DATABASE_FILE, 'json')
MainLoad ==
    /\ run.pc = "load"
    /\ LET r == load_from_file(contacts, heap, file, "json")
       IN  /\ Len(r.heap) <= MaxObjs
           /\ Len(r.contacts) <= MaxLen
           /\ heap' = r.heap
           /\ contacts' = r.contacts
           /\ last' = [Call("load", 0) EXCEPT !.fmt = "json", !.err = r.err]
           /\ run' = [run EXCEPT
                         !.pc = next_pc(r.err, "handle"),
                         !.log = Append(@, [step |-> "load", err |-> r.err,
                                            size |-> Len(r.contacts)])]
    /\ UNCHANGED <<file, snap>>

\* handle_commands(args, phonebook)
MainHandle ==
    \E choices \in MainChoices, answers \in MainAnswers :
        /\ run.pc = "handle"
        /\ first_command(run.args.flags, 1) = "add" =>
              Len(heap) < MaxObjs /\ Len(contacts) < MaxLen
        /\ \E r \in { handle_commands(contacts, heap, run.export, run.args,
                                       choices, answers) } :
               /\ heap' = r.heap
               /\ contacts' = r.contacts
               /\ last' = [Call(r.handler, r.target) EXCEPT
                              !.query = join(run.args.name_info),
                              !.input = run.args.fields,
                              !.err = r.err, !.results = r.results]
               /\ run' = [run EXCEPT
                             !.pc = next_pc(r.err, "save"),
                             !.log = Append(@, [step |-> r.handler,
                                                err |-> r.err,
                                                size |-> Len(r.contacts)]),
                             !.export = r.export]
        /\ UNCHANGED <<file, snap>>

\* phonebook.save_to_file(JSON_DATABASE_FILE, file_format='json')
MainSave ==
    /\ run.pc = "save"
    /\ file' = save_to_file(contacts, heap, "json")
    /\ snap' = [saved |-> TRUE,
                people |-> [i \in 1..Len(contacts) |-> heap[contacts[i]]]]
    /\ last' = [Call("save", 0) EXCEPT !.fmt = "json"]
    /\ run' = [run EXCEPT !.pc = "done",
                          !.log = Append(@, [step |-> "save", err |-> "none",
                                             size |-> Len(contacts)])]
    /\ UNCHANGED <<heap, contacts>>

NextMain ==
    \/ MainStart
    \/ MainLoad
    \/ MainHandle
    \/ MainSave

SpecMain == InitMain /\ [][NextMain]_vars

\* the steps the invocation under way has taken, in their order
Steps == [i \in 1..Len(run.log) |-> run.log[i].step]

\* The handler the invocation is to run: the command whose flag is set and
\* before which, in the order add, remove, update, search, export_json,
\* export_yaml, display_all_contacts, export_html, no flag is set.
TheHandler ==
    LET set == {k \in 1..Len(CommandOrder) : CommandOrder[k] \in run.args.flags}
    IN  CommandOrder[Least(set)]

\* C20: an invocation loads the store, then runs one handler, the first
\* whose flag is set, then saves the store. No handler has run before the
\* load has returned, none runs twice or next to another, and the save comes
\* after the handler and only when neither the load nor the handler raised:
\* a step that raised is the last step of its invocation.
C20_LoadHandleSave ==
    run.pc # "none" =>
        /\ Len(run.log) <= 3
        /\ Steps = SubSeq(<<"load", TheHandler, "save">>, 1, Len(run.log))
        /\ \A i \in 1..Len(run.log) - 1 : run.log[i].err = "none"
        /\ run.pc = "load" <=> run.log = <<>>
        /\ run.pc = "load" => contacts = <<>> /\ heap = <<>>
        /\ run.pc = "handle" <=>
              (Len(run.log) = 1 /\ run.log[1].err = "none")
        /\ run.pc = "save" <=>
              (Len(run.log) = 2 /\ run.log[2].err = "none")
        /\ run.pc = "done" <=> Len(run.log) = 3
        /\ run.pc = "failed" <=>
              (run.log # <<>> /\ run.log[Len(run.log)].err # "none")

\* C20 witness: an invocation loaded one contact, added a second and saved
\* the two.
C20_Witness ==
    /\ run.pc = "done"
    /\ Steps = <<"load", "add", "save">>
    /\ Len(contacts) = 2
    /\ Len(snap.people) = 2
    /\ file.kind = "json"

\* C21: from one invocation to the next no contact is lost but by a remove:
\* when an invocation has loaded, run its command and saved, the next load
\* gives one contact more than the load before it after an add, and as many
\* after a search, an update or a display.
C21_NothingLostBetweenRuns ==
    (run.pc = "handle" /\ Len(run.prev) = 3) =>
        /\ run.prev[2].step = "add" =>
              run.log[1].size = run.prev[1].size + 1
        /\ run.prev[2].step \in {"search", "update", "display_all_contacts"} =>
              run.log[1].size = run.prev[1].size

----------------------------------------------------------------------------
\* load_from_file on files that are not all well-formed

\* A record with all it needs, and one without last_name.
FullRecord ==
    [f \in {"first_name", "last_name", "phone"} |->
        IF f = "first_name" THEN Sam ELSE IF f = "last_name" THEN Lee
        ELSE <<"1">>]

PartRecord == [f \in {"first_name"} |-> Jane]

\* The mappings of the files: up to two records, under the keys a and b.
LoadData ==
    LET one == { <<[key |-> <<"a">>, val |-> v]>> : v \in {FullRecord, PartRecord} }
        two == { <<[key |-> <<"a">>, val |-> v], [key |-> <<"b">>, val |-> w]>> :
                    v \in {FullRecord, PartRecord}, w \in {FullRecord, PartRecord} }
    IN  { <<>> } \cup one \cup two

\* The files: none, an empty one, and each mapping as JSON and as YAML text.
LoadFiles ==
    { NoFile, [kind |-> "empty", entries |-> <<>>] }
        \cup { json_dump(d) : d \in LoadData }
        \cup { yaml_dump(d) : d \in LoadData }

InitLoad ==
    /\ heap = <<>>
    /\ contacts = <<>>
    /\ file \in LoadFiles
    /\ last = NoCall
    /\ snap = NoSnap
    /\ run = NoRun

NextLoad ==
    \/ ApiAddContact
    \/ LoadFromFile

SpecLoad == InitLoad /\ [][NextLoad]_vars

\* C22: a load that raises, for an unsupported format, for content that is
\* not of the format, or for a record without first_name or last_name
\* wherever it is in the file, leaves the list as it was before the call.
C22_FailedLoadChangesNothing ==
    (last.op = "load" /\ last.err # "none") => contacts = last.pre

----------------------------------------------------------------------------
\* Person.from_dict on its own

\* The mappings from_dict is called with: any of the five keys present or
\* not, each present key with None, an empty string or a name.
Records ==
    UNION { [D -> {None, <<>>, Sam}] : D \in SUBSET Fields }

InitRecord ==
    /\ heap = <<>>
    /\ contacts = <<>>
    /\ file = NoFile
    /\ last \in { [NoCall EXCEPT !.op = "record", !.input = data] :
                      data \in Records }
    /\ snap = NoSnap
    /\ run = NoRun

\* p = Person.from_dict(data)
FromDict ==
    /\ last.op = "record"
    /\ LET r == from_dict(last.input)
       IN  /\ heap' = IF r.err = "none" THEN Append(heap, r.person) ELSE heap
           /\ last' = [last EXCEPT !.op = "from_dict", !.err = r.err,
                                   !.arg = IF r.err = "none" THEN Len(heap) + 1
                                           ELSE 0]
    /\ UNCHANGED <<contacts, file, snap, run>>

NextRecord == FromDict

SpecRecord == InitRecord /\ [][NextRecord]_vars

\* C14: from_dict(mapping) raises KeyError (the MissingFieldError of this
\* code) when first_name or last_name is no key of the mapping; with both
\* keys it returns a Person with the mapping's names, whether or not phone
\* and address are keys, a missing phone or address being None in it.
C14_FromRecordNeedsNames ==
    last.op = "from_dict" =>
        IF {"first_name", "last_name"} \subseteq DOMAIN last.input
        THEN /\ last.err = "none"
             /\ Len(heap) = 1
             /\ heap[1].first_name = last.input["first_name"]
             /\ heap[1].last_name = last.input["last_name"]
             /\ \A f \in {"phone", "address"} :
                   heap[1][f] = IF f \in DOMAIN last.input THEN last.input[f]
                                ELSE None
        ELSE /\ last.err = "KeyError"
             /\ heap = <<>>

\* C14 witness: a mapping with the two names and nothing else gave a Person
\* without phone and address.
C14_Witness ==
    /\ last.op = "from_dict"
    /\ DOMAIN last.input = {"first_name", "last_name"}
    /\ last.err = "none"
    /\ heap[1].first_name = Sam
    /\ heap[1].phone = None
    /\ heap[1].address = None

====
